---- MODULE Spec2Model ----
(***************************************************************************)
(* Model of src/main.py: the __main__ block runs initialize() once with    *)
(* asyncio.run and then calls exit(0).  initialize() checks AGENT_READY,   *)
(* connects the sales data store, and runs two turns inside one            *)
(* try/except: create agent, create thread, post message, open stream,     *)
(* drive the stream with until_done, delete thread, delete agent.          *)
(*                                                                         *)
(* Every awaited remote operation either succeeds or raises; an operation  *)
(* that raises has no remote effect.  MyEventHandler (my_event_handler.py) *)
(* and SalesData (sales_data.py) are imported by main.py but are not part  *)
(* of src/; the event bridge and the tool registry are modelled from       *)
(* sections 4.2 and 4.3 of the specification.                              *)
(***************************************************************************)
EXTENDS Naturals, FiniteSets, Sequences, TLC

VARIABLES
    pc,            \* position of the main task
    turn,          \* 1: simple example, 2: tool calling example
    AGENT_READY,   \* module global, main.py:24
    agent,         \* local `agent` of initialize (an agent id, 0 = unbound)
    thread,        \* local `thread` of initialize (a thread id, 0 = unbound)
    stream,        \* local `stream` of initialize (a stream id, 0 = unbound)
    agents,        \* agents that exist remotely (created, not deleted)
    threads,       \* threads that exist remotely (created, not deleted)
    n_agents,      \* agents ever created
    n_threads,     \* threads ever created
    delete_count,  \* thread id -> number of delete_thread calls that succeeded
    posted,        \* thread ids that hold the user message
    opened,        \* stream ids ever opened
    streams,       \* stream ids open now
    with_tools,    \* agent ids created with tools=functions.definitions (line 137)
    bridge,        \* state of the event bridge of the current stream
    batches,       \* tool-call batches the current stream has produced
    deltas,        \* message-delta events the current stream has produced
    requested,     \* tool calls requested on the current stream
    results,       \* ToolCallResults built and not yet submitted
    submitted,     \* sequence of submissions, each a set of ToolCallResults
    raised,        \* exception raised in this invocation of initialize, or "none"
    raised_at,     \* the statement that raised it, or "none"
    live_at_raise, \* <<agents, threads>> as they were when it was raised
    logged,        \* logger.error calls of this invocation
    outcome,       \* what the caller of initialize() observes
    exit_code,     \* process exit status, "running" while the process lives
    invocations,   \* calls of initialize() started
    connects       \* sales_data.connect() calls made

vars == <<pc, turn, AGENT_READY, agent, thread, stream, agents, threads,
          n_agents, n_threads, delete_count, posted, opened, streams,
          with_tools, bridge, batches, deltas, requested, results, submitted,
          raised, raised_at, live_at_raise, logged, outcome, exit_code,
          invocations, connects>>

remote == <<agents, threads, n_agents, n_threads, delete_count, posted,
            opened, streams, with_tools>>
locals == <<agent, thread, stream>>
handler == <<bridge, batches, deltas, requested, results, submitted>>
caller == <<outcome, exit_code, invocations>>
failure == <<raised, raised_at, live_at_raise>>

\* Bounds of the model.
MaxCalls == 2        \* tool calls in one batch
MaxBatches == 1      \* tool-call batches on one stream
MaxDeltas == 1       \* message-delta events on one stream
MaxInvocations == 2  \* calls of initialize() a host makes (Reinit only)

\* user_async_functions: the functions AsyncFunctionTool registers.
user_async_functions == {"async_fetch_sales_data_using_sqlite_query"}

\* The shapes of tool call the stream can request: a good call, an
\* unregistered name, arguments that fail validation, a rejected query.
ToolCallShapes ==
    { [name |-> "async_fetch_sales_data_using_sqlite_query",
       args_valid |-> TRUE, query_ok |-> TRUE],
      [name |-> "unknown_tool", args_valid |-> TRUE, query_ok |-> TRUE],
      [name |-> "async_fetch_sales_data_using_sqlite_query",
       args_valid |-> FALSE, query_ok |-> TRUE],
      [name |-> "async_fetch_sales_data_using_sqlite_query",
       args_valid |-> TRUE, query_ok |-> FALSE] }

Init ==
    /\ pc = "main"
    /\ turn = 1
    /\ AGENT_READY = FALSE
    /\ agent = 0 /\ thread = 0 /\ stream = 0
    /\ agents = {} /\ threads = {}
    /\ n_agents = 0 /\ n_threads = 0
    /\ delete_count = <<>>
    /\ posted = {} /\ opened = {} /\ streams = {} /\ with_tools = {}
    /\ bridge = "Idle" /\ batches = 0 /\ deltas = 0
    /\ requested = {} /\ results = {} /\ submitted = <<>>
    /\ raised = "none" /\ raised_at = "none" /\ live_at_raise = <<{}, {}>>
    /\ logged = 0
    /\ outcome = "pending" /\ exit_code = "running"
    /\ invocations = 0 /\ connects = 0

\* An exception raised by a statement inside the try block (lines 95-166):
\* control goes to the except clause of line 168.
RaiseInTry(e) ==
    /\ raised' = e
    /\ raised_at' = pc
    /\ live_at_raise' = <<agents, threads>>
    /\ pc' = "except"

\* An exception raised before the try block (lines 59-60): nothing in
\* initialize() catches it.
RaiseBeforeTry(e) ==
    /\ raised' = e
    /\ raised_at' = pc
    /\ live_at_raise' = <<agents, threads>>
    /\ pc' = "escaped"

\* asyncio.run(initialize()), line 175: the coroutine starts at its first line.
main ==
    /\ pc = "main"
    /\ pc' = "guard"
    /\ turn' = 1
    /\ raised' = "none" /\ raised_at' = "none" /\ live_at_raise' = <<{}, {}>>
    /\ logged' = 0
    /\ invocations' = invocations + 1
    /\ outcome' = "pending"
    /\ UNCHANGED <<AGENT_READY, locals, remote, handler, exit_code, connects>>

\* if AGENT_READY: return   (lines 55-57)
guard ==
    /\ pc = "guard"
    /\ pc' = IF AGENT_READY THEN "returned" ELSE "connect"
    /\ outcome' = IF AGENT_READY THEN "None" ELSE outcome
    /\ UNCHANGED <<turn, AGENT_READY, locals, remote, handler, failure, logged,
                   exit_code, invocations, connects>>

\* await sales_data.connect()   (line 59, outside the try block)
connect ==
    /\ pc = "connect"
    /\ connects' = connects + 1
    /\ \/ pc' = "get_database_info" /\ UNCHANGED failure
       \/ RaiseBeforeTry("ConnectionError")
    /\ UNCHANGED <<turn, AGENT_READY, locals, remote, handler, logged, caller>>

\* database_schema_string = await sales_data.get_database_info()   (line 60)
get_database_info ==
    /\ pc = "get_database_info"
    /\ \/ pc' = "create_agent" /\ UNCHANGED failure
       \/ RaiseBeforeTry("DatabaseError")
    /\ UNCHANGED <<turn, AGENT_READY, locals, remote, handler, logged, caller,
                   connects>>

\* agent = await project_client.agents.create_agent(...)   (lines 96-100, 133-138)
create_agent ==
    /\ pc = "create_agent"
    /\ \/ /\ n_agents' = n_agents + 1
          /\ agent' = n_agents + 1
          /\ agents' = agents \cup {n_agents + 1}
          /\ with_tools' = IF turn = 2 THEN with_tools \cup {n_agents + 1}
                                       ELSE with_tools
          /\ pc' = "create_thread"
          /\ UNCHANGED failure
       \/ /\ RaiseInTry("SessionError")
          /\ UNCHANGED <<n_agents, agent, agents, with_tools>>
    /\ UNCHANGED <<turn, AGENT_READY, thread, stream, threads, n_threads,
                   delete_count, posted, opened, streams, handler,
                   logged, caller, connects>>

\* thread = await project_client.agents.create_thread()   (lines 103, 141)
create_thread ==
    /\ pc = "create_thread"
    /\ \/ /\ n_threads' = n_threads + 1
          /\ thread' = n_threads + 1
          /\ threads' = threads \cup {n_threads + 1}
          /\ delete_count' = delete_count @@ ((n_threads + 1) :> 0)
          /\ pc' = "create_message"
          /\ UNCHANGED failure
       \/ /\ RaiseInTry("SessionError")
          /\ UNCHANGED <<n_threads, thread, threads, delete_count>>
    /\ UNCHANGED <<turn, AGENT_READY, agent, stream, agents, n_agents, posted,
                   opened, streams, with_tools, handler, logged, caller,
                   connects>>

\* message = await project_client.agents.create_message(thread_id=thread.id, ...)
\* (lines 106-110, 144-148)
create_message ==
    /\ pc = "create_message"
    /\ \/ /\ posted' = posted \cup {thread}
          /\ pc' = "create_stream"
          /\ UNCHANGED failure
       \/ /\ RaiseInTry("SessionError")
          /\ UNCHANGED posted
    /\ UNCHANGED <<turn, AGENT_READY, locals, agents, threads, n_agents,
                   n_threads, delete_count, opened, streams, with_tools,
                   handler, logged, caller, connects>>

\* stream = await project_client.agents.create_stream(thread_id=thread.id,
\*     assistant_id=agent.id, event_handler=MyEventHandler(...), ...)
\* (lines 114-121, 152-160).  A fresh MyEventHandler is built for the stream.
create_stream ==
    /\ pc = "create_stream"
    /\ \/ /\ stream' = thread
          /\ opened' = opened \cup {thread}
          /\ streams' = streams \cup {thread}
          /\ bridge' = "Idle" /\ batches' = 0 /\ deltas' = 0
          /\ requested' = {} /\ results' = {} /\ submitted' = <<>>
          /\ pc' = "async_with"
          /\ UNCHANGED failure
       \/ /\ RaiseInTry("SessionError")
          /\ UNCHANGED <<stream, opened, streams, handler>>
    /\ UNCHANGED <<turn, AGENT_READY, agent, thread, agents, threads, n_agents,
                   n_threads, delete_count, posted, with_tools, logged, caller,
                   connects>>

\* async with stream as s: await s.until_done()   (lines 123-124, 162-163):
\* entering the context starts the event loop of the stream.
async_with ==
    /\ pc = "async_with"
    /\ bridge' = "Streaming"
    /\ pc' = "until_done"
    /\ UNCHANGED <<turn, AGENT_READY, locals, remote, batches, deltas,
                   requested, results, submitted, failure, logged, caller,
                   connects>>

\* A registry that lets the failure of a tool invocation propagate instead of
\* turning it into an error payload.
invoke_propagates(call) ==
    IF call.name \notin user_async_functions
    THEN [kind |-> "raise", error |-> "UnknownTool", ref |-> call.name]
    ELSE IF ~call.args_valid
    THEN [kind |-> "raise", error |-> "ArgumentError", ref |-> call.name]
    ELSE IF ~call.query_ok
    THEN [kind |-> "raise", error |-> "QueryError", ref |-> call.name]
    ELSE [kind |-> "output", error |-> "none", ref |-> call.name]

\* ToolRegistry.invoke (specification 4.2): look the handler up, validate the
\* arguments, run the query; every failure becomes an error payload.
invoke(call) ==
    IF call.name \notin user_async_functions
    THEN [kind |-> "error", error |-> "UnknownTool", ref |-> call.name]
    ELSE IF ~call.args_valid
    THEN [kind |-> "error", error |-> "ArgumentError", ref |-> call.name]
    ELSE IF ~call.query_ok
    THEN [kind |-> "error", error |-> "QueryError", ref |-> call.name]
    ELSE [kind |-> "output", error |-> "none", ref |-> call.name]

\* ToolCallResult {call_id, output} built for a tool call (specification 3).
ToolCallResult(call) == [call_id |-> call.call_id, output |-> invoke(call)]

\* Calls of the batch in progress whose result has not been built.
Pending ==
    { c \in requested :
        /\ c.call_id[1] = batches
        /\ \A r \in results : r.call_id # c.call_id }

\* message-delta event: forwarded to the output sink, the bridge stays in
\* Streaming (specification 4.3).
on_message_delta ==
    /\ pc = "until_done"
    /\ bridge = "Streaming"
    /\ deltas < MaxDeltas
    /\ deltas' = deltas + 1
    /\ UNCHANGED <<pc, turn, AGENT_READY, locals, remote, bridge, batches,
                   requested, results, submitted, failure, logged, caller,
                   connects>>

\* tool-call-requested events, one batch: the bridge goes to ToolsPending
\* (specification 4.3).  Only an agent created with tool definitions asks
\* for tool calls.
on_tool_call_requested ==
    /\ pc = "until_done"
    /\ bridge = "Streaming"
    /\ agent \in with_tools
    /\ batches < MaxBatches
    /\ \E ids \in SUBSET (1..MaxCalls) \ {{}} :
         \E shape \in [ids -> ToolCallShapes] :
           requested' = requested \cup
               { [call_id |-> <<batches + 1, i>>,
                  name |-> shape[i].name,
                  args_valid |-> shape[i].args_valid,
                  query_ok |-> shape[i].query_ok] : i \in ids }
    /\ batches' = batches + 1
    /\ bridge' = "ToolsPending"
    /\ UNCHANGED <<pc, turn, AGENT_READY, locals, remote, deltas, results,
                   submitted, failure, logged, caller, connects>>

\* One pending tool call finishes, in any order: its ToolCallResult is built.
\* An exception that left the invocation would leave the event handler and
\* until_done with it.
on_tool_call_done ==
    /\ pc = "until_done"
    /\ bridge = "ToolsPending"
    /\ \E c \in Pending :
         IF invoke(c).kind = "raise"
         THEN /\ raised' = invoke(c).error
              /\ raised_at' = "tool_handler"
              /\ live_at_raise' = <<agents, threads>>
              /\ bridge' = "Failed"
              /\ pc' = "aexit"
              /\ UNCHANGED results
         ELSE /\ results' = results \cup {ToolCallResult(c)}
              /\ UNCHANGED <<pc, bridge, failure>>
    /\ UNCHANGED <<turn, AGENT_READY, locals, remote, batches, deltas,
                   requested, submitted, logged, caller, connects>>

\* A bridge that submits as soon as one result is ready, without waiting for
\* the rest of the batch.
submit_tool_outputs_early ==
    /\ pc = "until_done"
    /\ bridge = "ToolsPending"
    /\ results # {}
    /\ submitted' = Append(submitted, results)
    /\ results' = {}
    /\ bridge' = "Streaming"
    /\ UNCHANGED <<pc, turn, AGENT_READY, locals, remote, batches, deltas,
                   requested, failure, logged, caller, connects>>

\* Every call of the batch is resolved: the results go back to the stream in
\* one submission and the bridge returns to Streaming (specification 4.3).
submit_tool_outputs ==
    /\ pc = "until_done"
    /\ bridge = "ToolsPending"
    /\ Pending = {}
    /\ submitted' = Append(submitted, results)
    /\ results' = {}
    /\ bridge' = "Streaming"
    /\ UNCHANGED <<pc, turn, AGENT_READY, locals, remote, batches, deltas,
                   requested, failure, logged, caller, connects>>

\* run-completed event: the stream is drained (specification 4.3).
on_run_completed ==
    /\ pc = "until_done"
    /\ bridge = "Streaming"
    /\ bridge' = "Completed"
    /\ UNCHANGED <<pc, turn, AGENT_READY, locals, remote, batches, deltas,
                   requested, results, submitted, failure, logged, caller,
                   connects>>

\* run-failed event: the bridge goes to Failed and carries the error
\* (specification 4.3).
on_run_failed ==
    /\ pc = "until_done"
    /\ bridge = "Streaming"
    /\ bridge' = "Failed"
    /\ UNCHANGED <<pc, turn, AGENT_READY, locals, remote, batches, deltas,
                   requested, results, submitted, failure, logged, caller,
                   connects>>

\* until_done not awaited: the block is left while the run is in progress.
until_done_no_wait ==
    /\ pc = "until_done"
    /\ raised' = IF bridge = "Failed" THEN "StreamError" ELSE raised
    /\ raised_at' = IF bridge = "Failed" THEN pc ELSE raised_at
    /\ live_at_raise' = IF bridge = "Failed" THEN <<agents, threads>>
                                             ELSE live_at_raise
    /\ pc' = "aexit"
    /\ UNCHANGED <<turn, AGENT_READY, locals, remote, handler, logged, caller,
                   connects>>

\* await s.until_done()   (lines 124, 163): returns once the stream is
\* drained, raises the carried error when the run failed.
until_done ==
    /\ pc = "until_done"
    /\ bridge \in {"Completed", "Failed"}
    /\ raised' = IF bridge = "Failed" THEN "StreamError" ELSE raised
    /\ raised_at' = IF bridge = "Failed" THEN pc ELSE raised_at
    /\ live_at_raise' = IF bridge = "Failed" THEN <<agents, threads>>
                                             ELSE live_at_raise
    /\ pc' = "aexit"
    /\ UNCHANGED <<turn, AGENT_READY, locals, remote, handler, logged, caller,
                   connects>>

\* The stream used without its context manager: nothing closes it.
aexit_leaves_open ==
    /\ pc = "aexit"
    /\ pc' = IF raised = "none" THEN "delete_thread" ELSE "except"
    /\ UNCHANGED <<turn, AGENT_READY, locals, remote, handler, failure, logged,
                   caller, connects>>

\* Leaving `async with stream as s:` (lines 123-124, 162-163): the stream is
\* closed, then a pending exception goes on to the except clause.
aexit ==
    /\ pc = "aexit"
    /\ streams' = streams \ {stream}
    /\ pc' = IF raised = "none" THEN "delete_thread" ELSE "except"
    /\ UNCHANGED <<turn, AGENT_READY, locals, agents, threads, n_agents,
                   n_threads, delete_count, posted, opened, with_tools,
                   handler, failure, logged, caller, connects>>

\* await project_client.agents.delete_thread(thread.id)   (lines 126, 165)
delete_thread ==
    /\ pc = "delete_thread"
    /\ \/ /\ threads' = threads \ {thread}
          /\ delete_count' = [delete_count EXCEPT ![thread] = @ + 1]
          /\ pc' = "delete_agent"
          /\ UNCHANGED failure
       \/ /\ RaiseInTry("SessionError")
          /\ UNCHANGED <<threads, delete_count>>
    /\ UNCHANGED <<turn, AGENT_READY, locals, agents, n_agents, n_threads,
                   posted, opened, streams, with_tools, handler, logged,
                   caller, connects>>

\* The turn goes on without deleting its agent.
delete_agent_skipped ==
    /\ pc = "delete_agent"
    /\ turn' = IF turn = 1 THEN 2 ELSE turn
    /\ pc' = IF turn = 1 THEN "create_agent" ELSE "returned"
    /\ outcome' = IF turn = 1 THEN outcome ELSE "None"
    /\ UNCHANGED <<AGENT_READY, locals, remote, handler, failure, logged,
                   exit_code, invocations, connects>>

\* await project_client.agents.delete_agent(agent.id)   (lines 127, 166);
\* after the first turn the tool calling example follows, after the second
\* the try block ends and initialize() returns None.
delete_agent ==
    /\ pc = "delete_agent"
    /\ \/ /\ agents' = agents \ {agent}
          /\ turn' = IF turn = 1 THEN 2 ELSE turn
          /\ pc' = IF turn = 1 THEN "create_agent" ELSE "returned"
          /\ outcome' = IF turn = 1 THEN outcome ELSE "None"
          /\ UNCHANGED failure
       \/ /\ RaiseInTry("SessionError")
          /\ UNCHANGED <<agents, turn, outcome>>
    /\ UNCHANGED <<AGENT_READY, locals, threads, n_agents, n_threads,
                   delete_count, posted, opened, streams, with_tools, handler,
                   logged, exit_code, invocations, connects>>

\* An except clause that logs and raises again.
except_clause_reraise ==
    /\ pc = "except"
    /\ logged' = logged + 1
    /\ pc' = "escaped"
    /\ UNCHANGED <<turn, AGENT_READY, locals, remote, handler, failure,
                   caller, connects>>

\* An except clause that deletes the thread and the agent before returning.
except_clause_cleanup ==
    /\ pc = "except"
    /\ logged' = logged + 1
    /\ outcome' = "None"
    /\ threads' = threads \ {thread}
    /\ agents' = agents \ {agent}
    /\ pc' = "returned"
    /\ UNCHANGED <<turn, AGENT_READY, locals, n_agents, n_threads,
                   delete_count, posted, opened, streams, with_tools, handler,
                   failure, exit_code, invocations, connects>>

\* except Exception as e: logger.error(...)   (lines 168-170); the function
\* then ends and returns None.
except_clause ==
    /\ pc = "except"
    /\ logged' = logged + 1
    /\ outcome' = "None"
    /\ pc' = "returned"
    /\ UNCHANGED <<turn, AGENT_READY, locals, remote, handler, failure,
                   exit_code, invocations, connects>>

\* An exception that left initialize() leaves asyncio.run (line 175) too:
\* lines 176-177 are not reached and the interpreter ends with status 1.
unhandled ==
    /\ pc = "escaped"
    /\ outcome' = "raised"
    /\ exit_code' = 1
    /\ pc' = "exited"
    /\ UNCHANGED <<turn, AGENT_READY, locals, remote, handler, failure, logged,
                   invocations, connects>>

\* print("Program finished."); exit(0)   (lines 176-177)
finished ==
    /\ pc = "returned"
    /\ exit_code' = 0
    /\ pc' = "exited"
    /\ UNCHANGED <<turn, AGENT_READY, locals, remote, handler, failure, logged,
                   outcome, invocations, connects>>

\* A host that imported the module calls initialize() again after a call
\* returned (the case the AGENT_READY guard of lines 55-57 is for).
call_again ==
    /\ pc = "returned"
    /\ invocations < MaxInvocations
    /\ pc' = "guard"
    /\ turn' = 1
    /\ raised' = "none" /\ raised_at' = "none" /\ live_at_raise' = <<{}, {}>>
    /\ logged' = 0
    /\ invocations' = invocations + 1
    /\ outcome' = "pending"
    /\ UNCHANGED <<AGENT_READY, locals, remote, handler, exit_code, connects>>

Orchestrator ==
    \/ guard \/ connect \/ get_database_info
    \/ create_agent \/ create_thread \/ create_message \/ create_stream
    \/ async_with \/ until_done \/ aexit
    \/ delete_thread \/ delete_agent \/ except_clause

Bridge ==
    \/ on_message_delta \/ on_tool_call_requested \/ on_tool_call_done
    \/ submit_tool_outputs \/ on_run_completed \/ on_run_failed

\* The program as run: python main.py.
Next == main \/ Orchestrator \/ Bridge \/ unhandled \/ finished

Spec == Init /\ [][Next]_vars

\* The module imported by a host that calls initialize() more than once.
NextReinit == Next \/ call_again

SpecReinit == Init /\ [][NextReinit]_vars

----------------------------------------------------------------------------
\* Statements of initialize() that lie inside the try block.
TryStatements ==
    {"create_agent", "create_thread", "create_message", "create_stream",
     "until_done", "delete_thread", "delete_agent"}

\* initialize() has come back to its caller, or the process has ended.
Returned == pc \in {"returned", "exited"}

\* Number of ToolCallResults submitted for a call id, over all submissions.
Answers(id) ==
    Cardinality({ <<i, r>> \in
        UNION { {i} \X submitted[i] : i \in DOMAIN submitted } :
            r.call_id = id })

\* A tool call whose invocation fails.
Fails(call) ==
    \/ call.name \notin user_async_functions
    \/ ~call.args_valid
    \/ ~call.query_ok

\* C1: whatever the outcome of a turn, the thread created for it has been
\* deleted exactly once when initialize() returns.
C1_ThreadDeletedExactlyOnce ==
    pc = "returned" => \A th \in DOMAIN delete_count : delete_count[th] = 1

\* C2: when run completion is signalled, and so when until_done returns, every
\* tool call the stream requested has exactly one submitted ToolCallResult
\* with its call_id, and nothing else was submitted.
C2_EveryToolCallAnsweredOnce ==
    /\ (pc = "aexit" /\ raised = "none") => bridge = "Completed"
    /\ bridge = "Completed" =>
         /\ \A c \in requested : Answers(c.call_id) = 1
         /\ \A i \in DOMAIN submitted : \A r \in submitted[i] :
              \E c \in requested :
                  c.call_id = r.call_id /\ r = ToolCallResult(c)
         /\ results = {}

\* A batch of at least two tool calls was answered and until_done returned.
C2_Witness ==
    /\ pc = "delete_thread"
    /\ bridge = "Completed"
    /\ Cardinality(requested) >= 2
    /\ \A c \in requested : Answers(c.call_id) = 1

\* C3: an exception raised inside a turn does not escape initialize(), is
\* logged once, and reaches the caller as a failure outcome that differs from
\* the outcome of a successful run (None).
C3_FailureSurfacedToCaller ==
    /\ raised_at \in TryStatements => pc # "escaped"
    /\ (pc = "returned" /\ raised_at \in TryStatements) =>
           (logged = 1 /\ outcome # "None")

\* C4 as stated: the process always ends with exit code 0.
C4_AlwaysExitsZero == pc = "exited" => exit_code = 0

\* C4 amended: the process ends with exit code 0 unless connect() or
\* get_database_info() raised; then the exception leaves initialize() and
\* asyncio.run, exit(0) is not reached and the status is 1.
C4_ExitZeroUnlessRaisedBeforeTry ==
    pc = "exited" =>
        /\ raised_at \in {"connect", "get_database_info"} => exit_code = 1
        /\ raised_at \notin {"connect", "get_database_info"} => exit_code = 0

\* A stream failure inside the try block still ends in exit(0).
C4_Witness ==
    pc = "exited" /\ raised_at = "until_done" /\ logged = 1 /\ exit_code = 0

\* C5: once a call of initialize() has completed, a later call returns at the
\* guard: it does not connect and creates nothing.
C5_LaterCallsReturnAtGuard ==
    invocations > 1 => (pc \in {"guard", "returned", "exited"} /\ connects <= 1)

\* C6: at most one stream is open, and while the second turn issues its
\* operations the first turn's stream is drained and closed.
C6_TurnsNeverOverlap ==
    /\ Cardinality(streams) <= 1
    /\ (turn = 2 /\ pc \in {"create_agent", "create_thread", "create_message",
                            "create_stream"}) =>
           (streams = {} /\ opened # {} /\ bridge = "Completed")
    /\ turn = 2 => streams \subseteq {thread}

\* The second turn's stream is open after the first turn's was opened and closed.
C6_Witness ==
    turn = 2 /\ pc = "until_done" /\ Cardinality(opened) = 2 /\ streams = {stream}

\* C7: within a turn the message is posted to the thread just created, the
\* stream is opened only on a thread that holds the message, and delete_thread
\* is issued only once the stream has completed and is closed.
C7_FixedOrderWithinTurn ==
    /\ posted \subseteq 1..n_threads
    /\ opened \subseteq posted
    /\ pc = "create_message" => (thread \in threads /\ thread \notin posted)
    /\ pc = "create_stream" => (thread \in posted /\ thread \notin opened)
    /\ pc \in {"async_with", "until_done", "aexit"} =>
           (stream = thread /\ stream \in streams)
    /\ pc = "delete_thread" =>
           /\ thread \in opened
           /\ streams = {}
           /\ bridge = "Completed"
           /\ delete_count[thread] = 0

\* delete_thread is about to be issued in the tool calling turn.
C7_Witness ==
    turn = 2 /\ pc = "delete_thread" /\ thread \in threads /\ thread \in posted

\* C8: a failing tool invocation does not abort the turn: no exception of the
\* tool handler is raised into initialize(), the turn stays in until_done
\* while the batch is resolved, and once the batch is submitted every failing
\* call has an error ToolCallResult naming its tool under its call_id.
C8_ToolFailureBecomesErrorResult ==
    /\ raised_at # "tool_handler"
    /\ raised \notin {"UnknownTool", "ArgumentError", "QueryError"}
    /\ bridge = "ToolsPending" => (pc = "until_done" /\ raised = "none")
    /\ bridge \in {"Streaming", "Completed", "Failed"} =>
         \A c \in requested : Fails(c) =>
             \E i \in DOMAIN submitted : \E r \in submitted[i] :
                 /\ r.call_id = c.call_id
                 /\ r.output.kind = "error"
                 /\ r.output.ref = c.name

\* A stream with a failing tool call ran to completion and until_done returned.
C8_Witness ==
    /\ pc = "delete_thread"
    /\ bridge = "Completed"
    /\ \E c \in requested : Fails(c) /\ Answers(c.call_id) = 1

\* C9: at most one agent and one thread exist remotely; a turn creates its
\* agent and thread only when none is left, and delete_agent is issued only
\* after the turn's thread was deleted.
C9_AtMostOneAgentAndThread ==
    /\ Cardinality(agents) <= 1
    /\ Cardinality(threads) <= 1
    /\ pc = "create_agent" => (agents = {} /\ threads = {})
    /\ pc = "create_thread" => threads = {}
    /\ pc = "delete_agent" =>
           (thread \notin threads /\ delete_count[thread] = 1 /\ agent \in agents)

\* The second turn is about to delete its agent.
C9_Witness ==
    turn = 2 /\ pc = "delete_agent" /\ n_agents = 2 /\ agents = {agent}

\* C10 as stated: after a failure in the first turn initialize() returns with
\* the agent and the thread created so far both left undeleted.
C10_CreatedLeftUndeleted ==
    (pc = "returned" /\ turn = 1 /\ raised_at \in TryStatements) =>
        (agents = 1..n_agents /\ threads = 1..n_threads)

\* C10 amended: after a failure in the first turn no operation of the second
\* turn is issued, the error is logged once, AGENT_READY is unchanged, and the
\* agents and threads that existed when the exception was raised are left as
\* they were; when delete_agent is what raised, the thread is already deleted
\* and only the agent is left.
C10_FirstTurnFailureEndsRun ==
    (turn = 1 /\ raised_at \in TryStatements) =>
        /\ pc \in {"aexit", "except", "returned", "exited"}
        /\ n_agents <= 1 /\ n_threads <= 1
        /\ AGENT_READY = FALSE
        /\ <<agents, threads>> = live_at_raise
        /\ agents = 1..n_agents
        /\ threads = IF raised_at = "delete_agent" THEN {} ELSE 1..n_threads
        /\ Returned => logged = 1

\* initialize() returned after the first delete_agent raised.
C10_Witness ==
    /\ pc = "returned" /\ turn = 1 /\ raised_at = "delete_agent"
    /\ logged = 1 /\ agents = {1} /\ threads = {}

====
